---- MODULE Spec2Model ----
(***************************************************************************)
(* The scan handler of the vocabulary backend and the Word collection it   *)
(* reads and writes.  The repository holds three variants of the handler   *)
(* (server.js, part_000, part_001); `variant` fixes which one is deployed. *)
(* A request is a process that moves through the handler's await points:   *)
(*   ScanStart -> RecognizerReturn -> FindReturn -> SaveReturn.            *)
(* Times are milliseconds since the epoch of the run.                      *)
(***************************************************************************)
EXTENDS Integers, Sequences, FiniteSets, TLC

\* ---------------------------------------------------------------- bounds
\* Observations under way or committed in a run (`scans`): MaxScans when the
\* requests overlap at will, MaxSeqScans when they are served one after
\* another, MaxPairScans when one user scans one item over and over.
MaxScans == 2
MaxSeqScans == 3
MaxPairScans == 4
MaxQueryScans == 3
MaxClockMoves == 1
Reqs == {"r1", "r2"}
ClockSteps == {24 * 60 * 60 * 1000, 3 * 24 * 60 * 60 * 1000}
ClockSkews == {0, 1}

\* ------------------------------------------------------------ JS values
Undefined == "undefined"
DefaultUserId_None == Undefined

\* const { image, userId = 'default' } = req.body
DefaultUserId == "default"
Users == {"default", "u2"}
Images == {Undefined, "", "base64"}
Variants == {"server", "part_000", "part_001"}

MsPerDay == 24 * 60 * 60 * 1000

\* String.prototype.toLowerCase on the strings the model uses.
ToLowerCase_Identity(s) == s

ToLowerCase(s) ==
  CASE s = "Mooncake"   -> "mooncake"
    [] s = "Zongzi"     -> "zongzi"
    [] s = "Star Anise" -> "star anise"
    [] s = "Moon Cake"  -> "moon cake"
    [] OTHER            -> s

\* String.prototype.includes on lowercased recognizer texts.
Includes(s, needle) ==
  CASE s = "zongzi"     -> needle \in {"zongzi"}
    [] s = "star anise" -> needle \in {"star anise", "anise"}
    [] s = "mooncake"   -> needle \in {"mooncake"}
    [] s = "moon cake"  -> needle \in {"moon cake"}
    [] OTHER            -> FALSE

Attrs(t, p, c) == [translation |-> t, pronunciation |-> p, culturalContext |-> c]

NoItem == [english |-> Undefined, translation |-> Undefined,
           pronunciation |-> Undefined, culturalContext |-> Undefined]

CULTURAL_ITEMS ==
  [k \in {"zongzi", "star anise", "mooncake"} |->
     CASE k = "zongzi"     -> [english |-> "Zongzi", translation |-> "zh:zongzi",
                               pronunciation |-> "py:zongzi", culturalContext |-> "cc:zongzi"]
       [] k = "star anise" -> [english |-> "Star Anise", translation |-> "zh:bajiao",
                               pronunciation |-> "py:bajiao", culturalContext |-> "cc:bajiao"]
       [] k = "mooncake"   -> [english |-> "Mooncake", translation |-> "zh:yuebing",
                               pronunciation |-> "py:yuebing", culturalContext |-> "cc:yuebing"]]

matchCulturalItem(detected) ==
  LET lower == ToLowerCase(detected) IN
  IF Includes(lower, "zongzi") \/ Includes(lower, "rice dumpling") \/ Includes(lower, "sticky rice")
    THEN CULTURAL_ITEMS["zongzi"]
  ELSE IF Includes(lower, "star anise") \/ Includes(lower, "anise") \/ Includes(lower, "bajiao")
    THEN CULTURAL_ITEMS["star anise"]
  ELSE IF Includes(lower, "mooncake") \/ Includes(lower, "moon cake") \/ Includes(lower, "yuebing")
    THEN CULTURAL_ITEMS["mooncake"]
  ELSE NoItem

\* ------------------------------------------------- recognizer replies
\* What generateContent can hand back: a rejection, or a text.  A text is
\* abstracted by what trim/strip/JSON.parse make of it: unparseable, or an
\* object with the fields below (Undefined = field missing).
Names == {"Mooncake", "mooncake", "Zongzi"}
DetectedTexts == {"zongzi", "Moon Cake", "none"}
AttrTuples == {Attrs("t1", "p1", "c1"), Attrs("t2", "p2", "c2")}

Reply(kind, text, error, english, a) ==
  [kind |-> kind, text |-> text, error |-> error, english |-> english,
   translation |-> a.translation, pronunciation |-> a.pronunciation,
   culturalContext |-> a.culturalContext]

NoAttrs == Attrs(Undefined, Undefined, Undefined)

NoReply == Reply(Undefined, Undefined, Undefined, Undefined, NoAttrs)

JsonReplies ==
       {Reply("throw", Undefined, Undefined, Undefined, NoAttrs)}
  \cup {Reply("text", "garbage", Undefined, Undefined, NoAttrs)}
  \cup {Reply("json", Undefined, "none", Undefined, NoAttrs)}
  \cup {Reply("json", Undefined, Undefined, Undefined, a) : a \in AttrTuples}
  \cup {Reply("json", Undefined, Undefined, n, a) : n \in Names, a \in AttrTuples}
  \cup {Reply("json", Undefined, Undefined, "Zongzi", Attrs(Undefined, "p1", "c1"))}

TextReplies ==
       {Reply("throw", Undefined, Undefined, Undefined, NoAttrs)}
  \cup {Reply("text", t, Undefined, Undefined, NoAttrs) : t \in DetectedTexts}

Replies(v) == IF v = "part_000" THEN TextReplies ELSE JsonReplies

Keys == {ToLowerCase(n) : n \in Names} \cup {"zongzi", "star anise", "mooncake"}
Pairs == Users \X Keys

\* ------------------------------------------------------------- wordSchema
\* new Word({...}): the three Date defaults are three reads of Date.now.
NewWord(userId, english, data, t1, t2, t3) ==
  [userId |-> userId, english |-> english,
   translation |-> data.translation, pronunciation |-> data.pronunciation,
   culturalContext |-> data.culturalContext,
   timesSeenCount |-> 1, lastSeen |-> t1, nextReview |-> t2, createdAt |-> t3]

NoDoc == [userId |-> Undefined, english |-> Undefined, translation |-> Undefined,
          pronunciation |-> Undefined, culturalContext |-> Undefined,
          timesSeenCount |-> 0, lastSeen |-> 0, nextReview |-> 0, createdAt |-> 0]

Paths == {"userId", "english", "translation", "pronunciation", "culturalContext",
          "timesSeenCount", "lastSeen", "nextReview", "createdAt"}

\* hist[u, k] counts the writes committed for user u and key k: n all of
\* them, creates the inserts; names are the english names they were
\* recognized as, last the timesSeenCount of the latest 200 answer.  prev is the store as it was before the last
\* step.  out is what the last step answered to a vocabulary, review, chat or
\* tts request, NoOut when it answered none.
VARIABLES variant, store, prev, now, moves, req, done, scans, hist, out
vars == <<variant, store, prev, now, moves, req, done, scans, hist, out>>

\* ------------------------------------------------------------- requests
\* The locals of a handler run.  nRecog, nFind, nSave count the calls it has
\* issued; matched is the number of documents its findOne filter selected.
IdleReq ==
  [pc |-> "idle", image |-> Undefined, userId |-> Undefined,
   reply |-> NoReply, data |-> NoItem, id |-> 0, doc |-> NoDoc, mod |-> {},
   nRecog |-> 0, nFind |-> 0, nSave |-> 0, matched |-> 0]

\* `done` is the request the last step answered, NoAnswer when that step sent
\* no response: its inputs, the recognizer's reply to it, the calls it had
\* issued, the status and the body ({ error } or data with timesSeenCount and
\* isReview).
Answer(q, code, err, data, timesSeenCount, isReview) ==
  [image |-> q.image, userId |-> q.userId, reply |-> q.reply,
   status |-> code, error |-> err,
   english |-> data.english, translation |-> data.translation,
   pronunciation |-> data.pronunciation, culturalContext |-> data.culturalContext,
   timesSeenCount |-> timesSeenCount, isReview |-> isReview,
   nRecog |-> q.nRecog, nFind |-> q.nFind, nSave |-> q.nSave]

Fail_NoStatus(q, code, err) == Answer(q, 200, err, NoItem, 0, FALSE)

\* res.status(code).json({ error })
Fail(q, code, err) == Answer(q, code, err, NoItem, 0, FALSE)

NoAnswer == Answer(IdleReq, 0, Undefined, NoItem, 0, FALSE)

\* The answer to a listing, chat or tts request: the route, its userId, the
\* time its filter was built with, the status, and the documents Word.find
\* returned, in order (each with its _id, here its place in the store).
Out(op, userId, at, code, words) ==
  [op |-> op, userId |-> userId, at |-> at, status |-> code, words |-> words]

NoOut == Out("none", Undefined, 0, 0, <<>>)

Init ==
  /\ variant \in Variants
  /\ store = <<>>
  /\ prev = <<>>
  /\ now = 0
  /\ req = [r \in Reqs |-> IdleReq]
  /\ done = NoAnswer
  /\ scans = 0
  /\ moves = 0
  /\ hist = [p \in Pairs |-> [n |-> 0, creates |-> 0, names |-> {}, last |-> 0]]
  /\ out = NoOut

NoImage_UndefinedOnly(image) == image = Undefined

\* `!image`
NoImage(image) == image = Undefined \/ image = ""

\* const { image, userId = 'default' } = req.body; if (!image) return 400
\* (images, uids: the request bodies sent; max: the bound on `scans`)
ScanStart(r, images, uids, max) ==
  /\ req[r].pc = "idle"
  /\ scans < max
  /\ \E image \in images, uid \in uids :
       LET userId == IF uid = Undefined THEN DefaultUserId ELSE uid
           q == [IdleReq EXCEPT !.image = image, !.userId = userId]
       IN IF NoImage(image)
            THEN /\ done' = Fail(q, 400, "No image provided")
                 /\ UNCHANGED <<req, scans>>
            ELSE /\ req' = [req EXCEPT ![r] = [q EXCEPT !.pc = "recognizing", !.nRecog = @ + 1]]
                 /\ done' = NoAnswer
                 /\ scans' = scans + 1
  /\ prev' = store
  /\ out' = NoOut
  /\ UNCHANGED <<variant, store, now, moves, hist>>

\* ------------------------------------------------ recognizer returned
\* What the handler makes of the reply, up to the Word.findOne call:
\* "item" (go on with `data`), or a final status with its error text.
Outcome(kind, code, err, data) == [kind |-> kind, code |-> code, error |-> err, data |-> data]

ReplyData(reply) ==
  [english |-> reply.english, translation |-> reply.translation,
   pronunciation |-> reply.pronunciation, culturalContext |-> reply.culturalContext]

NotRecognized_Never(v, reply) == FALSE

\* culturalData.error === 'none' (server.js); !culturalItem (part_000);
\* part_001 has no such test.
NotRecognized(v, reply) ==
  CASE v = "server"   -> reply.kind = "json" /\ reply.error = "none"
    [] v = "part_000" -> reply.kind = "text" /\ matchCulturalItem(reply.text) = NoItem
    [] OTHER          -> FALSE

Recognize_ThrowAsNoMatch(v, reply) ==
  IF reply.kind = "throw"
    THEN Outcome("fail", 404, "Item not recognized", NoItem)
  ELSE IF v # "part_000" /\ reply.kind = "text"
    THEN Outcome("fail", 500, "Failed to parse AI response", NoItem)
  ELSE IF NotRecognized(v, reply)
    THEN Outcome("fail", 404, "Item not recognized", NoItem)
  ELSE IF v = "part_000"
    THEN Outcome("item", 0, Undefined, matchCulturalItem(reply.text))
  ELSE IF reply.english = Undefined
    THEN Outcome("fail", 500, "Failed to process image", NoItem)
  ELSE Outcome("item", 0, Undefined, ReplyData(reply))

\* The handler from the generateContent call up to the Word.findOne call.
Recognize(v, reply) ==
  IF reply.kind = "throw"
    THEN Outcome("fail", 500,
                 IF v = "server" THEN "Failed to call Gemini API" ELSE "Failed to process image",
                 NoItem)
  ELSE IF v # "part_000" /\ reply.kind = "text"
    THEN Outcome("fail", 500, "Failed to parse AI response", NoItem)
  ELSE IF NotRecognized(v, reply)
    THEN Outcome("fail", 404, "Item not recognized", NoItem)
  ELSE IF v = "part_000"
    THEN Outcome("item", 0, Undefined, matchCulturalItem(reply.text))
  ELSE IF reply.english = Undefined       \* undefined.toLowerCase() throws
    THEN Outcome("fail", 500, "Failed to process image", NoItem)
  ELSE Outcome("item", 0, Undefined, ReplyData(reply))

RecognizerReturn_Retry(r, replies) ==
  /\ req[r].pc = "recognizing"
  /\ \E reply \in replies :
       LET o == Recognize(variant, reply) IN
       IF o.kind = "item"
         THEN /\ req' = [req EXCEPT ![r] = [@ EXCEPT !.pc = "finding", !.reply = reply,
                                                       !.data = o.data, !.nFind = @ + 1]]
              /\ done' = NoAnswer
              /\ scans' = scans
         ELSE IF reply.kind = "throw" /\ req[r].nRecog < 2
           THEN /\ req' = [req EXCEPT ![r] = [@ EXCEPT !.nRecog = @ + 1]]
                /\ done' = NoAnswer
                /\ scans' = scans
           ELSE /\ req' = [req EXCEPT ![r] = IdleReq]
                /\ done' = Fail([req[r] EXCEPT !.reply = reply], o.code, o.error)
                /\ scans' = scans - 1
  /\ prev' = store
  /\ out' = NoOut
  /\ UNCHANGED <<variant, store, now, moves, hist>>

\* (replies: what the recognizer may hand back)
RecognizerReturn(r, replies) ==
  /\ req[r].pc = "recognizing"
  /\ \E reply \in replies :
       LET o == Recognize(variant, reply) IN
       IF o.kind = "item"
         THEN /\ req' = [req EXCEPT ![r] = [@ EXCEPT !.pc = "finding", !.reply = reply,
                                                       !.data = o.data, !.nFind = @ + 1]]
              /\ done' = NoAnswer
              /\ scans' = scans
         ELSE /\ req' = [req EXCEPT ![r] = IdleReq]
              /\ done' = Fail([req[r] EXCEPT !.reply = reply], o.code, o.error)
              /\ scans' = scans - 1
  /\ prev' = store
  /\ out' = NoOut
  /\ UNCHANGED <<variant, store, now, moves, hist>>

\* ------------------------------------------------------- Word.findOne
Matches_AnyUser(s, userId, english) ==
  {i \in 1..Len(s) : s[i].english = english}

\* Word.findOne({ userId, english }) : the documents the filter selects.
Matches(s, userId, english) ==
  {i \in 1..Len(s) : s[i].userId = userId /\ s[i].english = english}

NewTimesSeen_NoIncrement(existingWord) == existingWord.timesSeenCount

\* existingWord.timesSeenCount += 1
NewTimesSeen(existingWord) == existingWord.timesSeenCount + 1

\* new Date(Date.now() + existingWord.timesSeenCount * 24 * 60 * 60 * 1000)
NextReview(t, timesSeenCount) == t + timesSeenCount * MsPerDay

UpdateWord_TouchesCreatedAt(v, existingWord, data, t1, t2) ==
  LET w == [existingWord EXCEPT !.timesSeenCount = NewTimesSeen(existingWord),
                                !.lastSeen = t1,
                                !.nextReview = NextReview(t2, NewTimesSeen(existingWord)),
                                !.createdAt = t1]
  IN IF v = "server"
       THEN [w EXCEPT !.translation = data.translation,
                      !.pronunciation = data.pronunciation,
                      !.culturalContext = data.culturalContext]
       ELSE w

\* The assignments of the `if (existingWord)` branch; t1, t2 are the two
\* clock reads.  Only server.js assigns the three attributes.
UpdateWord(v, existingWord, data, t1, t2) ==
  LET w == [existingWord EXCEPT !.timesSeenCount = NewTimesSeen(existingWord),
                                !.lastSeen = t1,
                                !.nextReview = NextReview(t2, NewTimesSeen(existingWord))]
  IN IF v = "server"
       THEN [w EXCEPT !.translation = data.translation,
                      !.pronunciation = data.pronunciation,
                      !.culturalContext = data.culturalContext]
       ELSE w

\* Mongoose marks a path modified when the assigned value differs.
ModifiedPaths(old, new) == {p \in Paths : old[p] # new[p]}

\* A read of Date.now: the clock has moved on by d since the last read.
\* Between two handlers one or three days may pass, between two reads of one handler
\* ClockSkews milliseconds; the clock moves at most MaxClockMoves times.
Elapsed(n) == {0} \cup (IF n < MaxClockMoves THEN ClockSteps ELSE {})
Skewed(n) == {d \in ClockSkews : d = 0 \/ n < MaxClockMoves}
Count(d) == IF d = 0 THEN 0 ELSE 1

FindReturn(r) ==
  /\ req[r].pc = "finding"
  /\ LET q == req[r]
         key == ToLowerCase(q.data.english)
         m == Matches(store, q.userId, key)
     IN \/ /\ req' = [req EXCEPT ![r] = IdleReq]
           /\ done' = Fail(q, 500, "Failed to process image")
           /\ scans' = scans - 1
           /\ UNCHANGED <<now, moves>>
        \/ /\ m = {}
           /\ \E d \in Elapsed(moves) :
              \E s1 \in Skewed(moves + Count(d)) :
              \E s2 \in Skewed(moves + Count(d) + Count(s1)) :
                LET t1 == now + d
                    t2 == t1 + s1
                    t3 == t2 + s2
                IN /\ req' = [req EXCEPT ![r] =
                        [q EXCEPT !.pc = "saving", !.id = 0,
                                  !.doc = NewWord(q.userId, key, q.data, t1, t2, t3),
                                  !.mod = Paths, !.nSave = @ + 1, !.matched = 0]]
                   /\ now' = t3
                   /\ moves' = moves + Count(d) + Count(s1) + Count(s2)
           /\ done' = NoAnswer
           /\ scans' = scans
        \/ /\ \E i \in m, d \in Elapsed(moves) :
              \E s1 \in Skewed(moves + Count(d)) :
                LET t1 == now + d
                    t2 == t1 + s1
                    new == UpdateWord(variant, store[i], q.data, t1, t2)
                IN /\ req' = [req EXCEPT ![r] =
                        [q EXCEPT !.pc = "saving", !.id = i, !.doc = new,
                                  !.mod = ModifiedPaths(store[i], new), !.nSave = @ + 1,
                                  !.matched = Cardinality(m)]]
                   /\ now' = t2
                   /\ moves' = moves + Count(d) + Count(s1)
           /\ done' = NoAnswer
           /\ scans' = scans
  /\ prev' = store
  /\ out' = NoOut
  /\ UNCHANGED <<variant, store, hist>>

\* ------------------------------------------------------------ doc.save
\* updateOne({_id}, {$set: modified paths}) on the stored document.
ApplySet(stored, doc, mod) == [p \in Paths |-> IF p \in mod THEN doc[p] ELSE stored[p]]

Commit_OverwritesLast(s, id, doc, mod) ==
  IF id = 0
    THEN IF s = <<>> THEN <<doc>> ELSE [s EXCEPT ![Len(s)] = doc]
    ELSE [s EXCEPT ![id] = ApplySet(@, doc, mod)]

Commit_NotApplied(s, id, doc, mod) == s

Commit_Twice(s, id, doc, mod) ==
  IF id = 0 THEN Append(Append(s, doc), doc) ELSE [s EXCEPT ![id] = ApplySet(@, doc, mod)]

Commit(s, id, doc, mod) ==
  IF id = 0 THEN Append(s, doc) ELSE [s EXCEPT ![id] = ApplySet(@, doc, mod)]

\* data.timesSeenCount of the response
RespTimesSeen(id, doc) == IF id = 0 THEN 1 ELSE doc.timesSeenCount

RespIsReview_Never(id) == FALSE

\* isReview of the response
RespIsReview(id) == id # 0

SaveReturn_Hangs(r) ==
  /\ req[r].pc = "saving"
  /\ LET q == req[r] IN
     \/ /\ req' = [req EXCEPT ![r] = [@ EXCEPT !.pc = "hung"]]
        /\ done' = NoAnswer
        /\ scans' = scans
        /\ UNCHANGED <<store, hist>>
     \/ /\ req' = [req EXCEPT ![r] = IdleReq]
        /\ scans' = scans
        /\ store' = Commit(store, q.id, q.doc, q.mod)
        /\ done' = Answer(q, 200, Undefined, q.data,
                          RespTimesSeen(q.id, q.doc), RespIsReview(q.id))
        /\ hist' = [hist EXCEPT ![<<q.userId, q.doc.english>>] =
             [n |-> @.n + 1, creates |-> @.creates + (IF q.id = 0 THEN 1 ELSE 0),
              names |-> @.names \cup {q.data.english},
              last |-> RespTimesSeen(q.id, q.doc)]]
  /\ prev' = store
  /\ out' = NoOut
  /\ UNCHANGED <<variant, now, moves>>

\* await existingWord.save() / await newWord.save(), then res.json(data)
SaveReturn(r) ==
  /\ req[r].pc = "saving"
  /\ req' = [req EXCEPT ![r] = IdleReq]
  /\ LET q == req[r] IN
     \/ /\ done' = Fail(q, 500, "Failed to process image")
        /\ scans' = scans - 1
        /\ UNCHANGED <<store, hist>>
     \/ /\ scans' = scans
        /\ store' = Commit(store, q.id, q.doc, q.mod)
        /\ done' = Answer(q, 200, Undefined, q.data,
                          RespTimesSeen(q.id, q.doc), RespIsReview(q.id))
        /\ hist' = [hist EXCEPT ![<<q.userId, q.doc.english>>] =
             [n |-> @.n + 1, creates |-> @.creates + (IF q.id = 0 THEN 1 ELSE 0),
              names |-> @.names \cup {q.data.english},
              last |-> RespTimesSeen(q.id, q.doc)]]
  /\ prev' = store
  /\ out' = NoOut
  /\ UNCHANGED <<variant, now, moves>>

\* ------------------------------------------------------------ Word.find
\* The sequences that hold every member of ids once.
Orderings(ids) ==
  {q \in [1..Cardinality(ids) -> ids] : \A a, b \in DOMAIN q : a # b => q[a] # q[b]}

Sort_Unordered(s, ids, path, dir) == Orderings(ids)

\* .sort({ path: dir }) : dir = 1 ascending, -1 descending; documents with
\* equal values come in any order.
Sort(s, ids, path, dir) ==
  {q \in Orderings(ids) :
     \A a, b \in DOMAIN q : a < b => dir * s[q[a]][path] <= dir * s[q[b]][path]}

\* .limit(n)
Limit(q, n) == IF Len(q) <= n THEN q ELSE SubSeq(q, 1, n)

\* The documents handed back for the ids q.
Docs(s, q) == [a \in DOMAIN q |-> [_id |-> q[a]] @@ s[q[a]]]

\* Word.find({ userId })
OfUser(s, userId) == {i \in DOMAIN s : s[i].userId = userId}

Due_StrictlyBefore(s, userId, at) == {i \in OfUser(s, userId) : s[i].nextReview < at}

\* Word.find({ userId, nextReview: { $lte: at } })
Due(s, userId, at) == {i \in OfUser(s, userId) : s[i].nextReview <= at}

\* app.get('/api/vocabulary/:userId')
Vocabulary(uids) ==
  /\ \E userId \in uids :
       \/ out' = Out("vocabulary", userId, now, 500, <<>>)
       \/ \E q \in Sort(store, OfUser(store, userId), "lastSeen", -1) :
            out' = Out("vocabulary", userId, now, 200, Docs(store, q))
  /\ prev' = store
  /\ done' = NoAnswer
  /\ UNCHANGED <<variant, store, now, moves, req, scans, hist>>

\* app.get('/api/review/:userId') : new Date() is a read of the clock.
Review(uids) ==
  /\ \E userId \in uids, d \in Elapsed(moves) :
       LET at == now + d IN
       /\ \/ out' = Out("review", userId, at, 500, <<>>)
          \/ \E q \in Sort(store, Due(store, userId, at), "nextReview", 1) :
               out' = Out("review", userId, at, 200, Docs(store, q))
       /\ now' = at
       /\ moves' = moves + Count(d)
  /\ prev' = store
  /\ done' = NoAnswer
  /\ UNCHANGED <<variant, store, req, scans, hist>>

ChatMessages == {Undefined, "hello"}

\* app.post('/api/chat') : no message 400; else the user's 20 most recently
\* seen words go into the prompt and the assistant answers or fails.
Chat(uids) ==
  /\ \E message \in ChatMessages, uid \in uids :
       LET userId == IF uid = Undefined THEN DefaultUserId ELSE uid IN
       IF message = Undefined
         THEN out' = Out("chat", userId, now, 400, <<>>)
         ELSE \/ out' = Out("chat", userId, now, 500, <<>>)
              \/ \E q \in Sort(store, OfUser(store, userId), "lastSeen", -1) :
                   out' = Out("chat", userId, now, 200, Docs(store, Limit(q, 20)))
  /\ prev' = store
  /\ done' = NoAnswer
  /\ UNCHANGED <<variant, store, now, moves, req, scans, hist>>

TtsTexts == {Undefined, "yuebing"}

\* app.post('/api/tts') : no text 400; else the speech service answers or
\* fails.  The Word collection is not touched.
Tts ==
  /\ \E text \in TtsTexts :
       IF text = Undefined
         THEN out' = Out("tts", Undefined, now, 400, <<>>)
         ELSE \E code \in {200, 500} : out' = Out("tts", Undefined, now, code, <<>>)
  /\ prev' = store
  /\ done' = NoAnswer
  /\ UNCHANGED <<variant, store, now, moves, req, scans, hist>>

\* ------------------------------------------------------- specifications
UserIds == Users \cup {Undefined}

Next ==
  \/ \E r \in Reqs : ScanStart(r, Images, UserIds, MaxScans)
  \/ \E r \in Reqs : RecognizerReturn(r, Replies(variant))
  \/ \E r \in Reqs : FindReturn(r)
  \/ \E r \in Reqs : SaveReturn(r)

Spec == Init /\ [][Next]_vars

\* The recognizer call, Word.findOne and save() of every request eventually
\* return or fail.
Fairness ==
  \A r \in Reqs :
    /\ WF_vars(RecognizerReturn(r, Replies(variant)))
    /\ WF_vars(FindReturn(r))
    /\ WF_vars(SaveReturn(r))

LiveSpec == Init /\ [][Next]_vars /\ Fairness

\* Requests served one after another: a scan starts only when no other
\* request is in flight.
NoneInFlight == \A o \in Reqs : req[o].pc = "idle"

SeqScanStart(r) == NoneInFlight /\ ScanStart(r, Images, UserIds, MaxSeqScans)

SeqNext ==
  \/ \E r \in Reqs : SeqScanStart(r)
  \/ \E r \in Reqs : RecognizerReturn(r, Replies(variant))
  \/ \E r \in Reqs : FindReturn(r)
  \/ \E r \in Reqs : SaveReturn(r)

SeqSpec == Init /\ [][SeqNext]_vars

\* One user scanning one item over and over, the requests overlapping at
\* will: every request is by PairUser and is recognized as a mooncake.
PairUser == "default"

PairReplies(v) ==
  IF v = "part_000"
    THEN {Reply("text", "Moon Cake", Undefined, Undefined, NoAttrs)}
    ELSE {Reply("json", Undefined, Undefined, "Mooncake", a) : a \in AttrTuples}

PairNext ==
  \/ \E r \in Reqs : ScanStart(r, {"base64"}, {PairUser}, MaxPairScans)
  \/ \E r \in Reqs : RecognizerReturn(r, PairReplies(variant))
  \/ \E r \in Reqs : FindReturn(r)
  \/ \E r \in Reqs : SaveReturn(r)

PairSpec == Init /\ [][PairNext]_vars

\* The whole service: scans served one at a time, with the listings, chat
\* and tts between their steps.  Every scan carries an image and is
\* recognized.
QueryReqs == {"r1"}

QueryReplies(v) ==
  IF v = "part_000"
    THEN {Reply("text", t, Undefined, Undefined, NoAttrs) : t \in {"zongzi", "Moon Cake"}}
    ELSE {Reply("json", Undefined, Undefined, n, Attrs("t1", "p1", "c1")) :
            n \in {"Mooncake", "Zongzi"}}

QueryNext ==
  \/ \E r \in QueryReqs : ScanStart(r, {"base64"}, Users, MaxQueryScans)
  \/ \E r \in QueryReqs : RecognizerReturn(r, QueryReplies(variant))
  \/ \E r \in QueryReqs : FindReturn(r)
  \/ \E r \in QueryReqs : SaveReturn(r)
  \/ Vocabulary(Users)
  \/ Review(Users)
  \/ Chat({Undefined, "u2"})
  \/ Tts

QuerySpec == Init /\ [][QueryNext]_vars

\* Requests served one after another, each either without a userId or by
\* "u2"; every scan carries an image and is recognized.
DefaultNext ==
  \/ \E r \in Reqs : NoneInFlight /\ ScanStart(r, {"base64"}, {Undefined, "u2"}, MaxSeqScans)
  \/ \E r \in Reqs : RecognizerReturn(r, QueryReplies(variant))
  \/ \E r \in Reqs : FindReturn(r)
  \/ \E r \in Reqs : SaveReturn(r)

DefaultSpec == Init /\ [][DefaultNext]_vars

\* ------------------------------------------------------------- properties
\* The documents stored for user u under key k.
DocsOf(u, k) == {i \in DOMAIN store : store[i].userId = u /\ store[i].english = k}

\* The lexical key of a recognized name.
KeyOf(english) ==
  IF english \in {"Mooncake", "mooncake"} THEN "mooncake"
  ELSE IF english \in {"Zongzi", "zongzi"} THEN "zongzi"
  ELSE IF english = "Star Anise" THEN "star anise"
  ELSE english

\* C1: from a store holding one record of the pair with timesSeen = 1 (one
\* insert committed), two further scans of the pair, their find and save
\* steps interleaved at will, end with exactly one record and timesSeen = 3.
C1_TwoConcurrentScans ==
  \A p \in Pairs :
    (hist[p].creates = 1 /\ hist[p].n = 3) =>
      /\ Cardinality(DocsOf(p[1], p[2])) = 1
      /\ \A i \in DocsOf(p[1], p[2]) : store[i].timesSeenCount = 3

\* C2: in every reachable state there is at most one Word record per
\* (userId, english key) pair.
C2_OneRecordPerPair ==
  \A p \in Pairs : Cardinality(DocsOf(p[1], p[2])) <= 1

\* C3: every stored timesSeenCount is at least 1 and no step lowers the
\* timesSeenCount of a stored record.
C3_TimesSeenMonotone ==
  \A i \in DOMAIN store :
    /\ store[i].timesSeenCount >= 1
    /\ i \in DOMAIN prev => store[i].timesSeenCount >= prev[i].timesSeenCount

\* C4: with the requests served one after another, after N committed scans of
\* a pair there is one record of the pair and its timesSeenCount is N (none
\* for N = 0); every commit adds one to N, so the i-th write stores exactly i.
C4_SequentialCount ==
  \A p \in Pairs :
    IF hist[p].n = 0
      THEN DocsOf(p[1], p[2]) = {}
      ELSE /\ Cardinality(DocsOf(p[1], p[2])) = 1
           /\ \A i \in DocsOf(p[1], p[2]) : store[i].timesSeenCount = hist[p].n

C4_Witness ==
  \E p \in Pairs :
    /\ hist[p].n = 3
    /\ \E i \in DocsOf(p[1], p[2]) : store[i].timesSeenCount = 3

\* C5: the first successful scan of a pair answers isReview = false and
\* timesSeen = 1 and leaves the record with timesSeenCount = 1; the second
\* answers isReview = true and timesSeen = 2.
C5_FirstAndSecondScan ==
  done.status = 200 =>
    LET p == <<done.userId, KeyOf(done.english)>> IN
    /\ hist[p].n = 1 =>
         /\ done.isReview = FALSE
         /\ done.timesSeenCount = 1
         /\ Cardinality(DocsOf(p[1], p[2])) = 1
         /\ \A i \in DocsOf(p[1], p[2]) : store[i].timesSeenCount = 1
    /\ hist[p].n = 2 =>
         /\ done.isReview = TRUE
         /\ done.timesSeenCount = 2

C5_Witness ==
  /\ done.status = 200
  /\ hist[<<done.userId, KeyOf(done.english)>>].n = 2
  /\ done.isReview = TRUE
  /\ done.timesSeenCount = 2

\* C6: with the requests served one after another, after the k-th committed
\* scan of a pair (k >= 1, the creating one included) the stored record has
\* nextReview - lastSeen = k days = k * 86400 seconds.
C6_IntervalIsKDays ==
  \A p \in Pairs : \A i \in DocsOf(p[1], p[2]) :
    store[i].nextReview - store[i].lastSeen = hist[p].n * 86400 * 1000

\* C7: a step changes or adds only records of the answered request's own
\* (userId, key); every other record stays as it was, and a record's
\* timesSeenCount never exceeds the writes committed for its own pair.
C7_OtherPairsUntouched ==
  /\ \A i \in DOMAIN prev : i \in DOMAIN store
  /\ \A i \in DOMAIN store :
       (i \notin DOMAIN prev \/ store[i] # prev[i]) =>
         /\ done.status = 200
         /\ store[i].userId = done.userId
         /\ store[i].english = KeyOf(done.english)
         /\ i \in DOMAIN prev =>
              /\ prev[i].userId = done.userId
              /\ prev[i].english = KeyOf(done.english)
  /\ \A i \in DOMAIN store :
       store[i].timesSeenCount <= hist[<<store[i].userId, store[i].english>>].n

\* u2's first scan of a key "default" has already stored: a record of its own.
C7_Witness ==
  /\ done.status = 200
  /\ done.userId = "u2"
  /\ done.isReview = FALSE
  /\ \E i \in DocsOf("default", KeyOf(done.english)) : store[i].timesSeenCount = 1
  /\ \E j \in DocsOf("u2", KeyOf(done.english)) : store[j].timesSeenCount = 1

\* C8: after a successful scan the stored translation, pronunciation and
\* culturalContext of the pair's record are those the recognizer returned
\* for that request.
C8_AttributesOverwritten ==
  done.status = 200 =>
    \A i \in DocsOf(done.userId, KeyOf(done.english)) :
      /\ store[i].translation = done.translation
      /\ store[i].pronunciation = done.pronunciation
      /\ store[i].culturalContext = done.culturalContext

\* C9: a request without an image (absent or empty) is answered 400
\* "No image provided" in the step that receives it, has called neither the
\* recognizer nor the store, and leaves the store as it was; no request
\* without an image is ever in flight.
C9_NoImage ==
  /\ (done.status # 0 /\ done.image \in {"undefined", ""}) =>
       /\ done.status = 400
       /\ done.error = "No image provided"
       /\ done.nRecog = 0 /\ done.nFind = 0 /\ done.nSave = 0
       /\ store = prev
  /\ \A r \in Reqs : req[r].pc # "idle" => req[r].image \notin {"undefined", ""}

C9_Witness ==
  /\ done.status = 400
  /\ done.image = ""
  /\ Len(store) >= 1

\* C10: a request whose recognizer reply signals no match ({"error":"none"}
\* for server.js, a text naming none of the three items for part_000; part_001
\* defines no such signal) is answered 404 "Item not recognized", and whatever
\* the variant the store is left as it was and no save was issued.
NoMatchReply(v, reply) ==
  \/ v = "server" /\ reply.kind = "json" /\ reply.error = "none"
  \/ v = "part_000" /\ reply.kind = "text" /\ reply.text = "none"

InvalidReply(reply) ==
  \/ reply.kind = "text"
  \/ /\ reply.kind = "json"
     /\ reply.error # "none"
     /\ Undefined \in {reply.english, reply.translation,
                       reply.pronunciation, reply.culturalContext}

C11_InvalidReply ==
  variant # "part_000" =>
    /\ InvalidReply(done.reply) =>
         /\ done.status = 500
         /\ done.nFind = 0 /\ done.nSave = 0
         /\ store = prev
    /\ \A r \in Reqs : req[r].pc \in {"finding", "saving"} => ~ InvalidReply(req[r].reply)

\* C12: a request whose findOne or save() fails (it is answered with an error
\* after its store lookup was issued) is answered 500 "Failed to process
\* image" and the store is as it was before the request: the failing step
\* leaves it unchanged, and no step of a request changes it before the
\* request is answered with success.
C12_StorageFailure ==
  /\ (done.error # Undefined /\ done.nFind = 1) =>
       /\ done.status = 500
       /\ done.error = "Failed to process image"
       /\ store = prev
  /\ store # prev => (done.status = 200 /\ done.error = Undefined)

\* A save() of an update fails: the record it had read is still stored.
C12_Witness ==
  /\ done.status = 500
  /\ done.nSave = 1
  /\ Len(store) >= 1
  /\ store = prev

\* C13: a request whose recognizer call is rejected is answered 500 (with
\* "Failed to call Gemini API" by server.js, "Failed to process image" by
\* the others), has issued no store lookup and no save, and leaves the
\* store as it was.
C13_RecognizerFailure ==
  /\ done.reply.kind = "throw" =>
       /\ done.status = 500
       /\ done.error = (IF variant = "server" THEN "Failed to call Gemini API"
                                               ELSE "Failed to process image")
       /\ done.nRecog = 1 /\ done.nFind = 0 /\ done.nSave = 0
       /\ store = prev
  /\ \A r \in Reqs : req[r].reply.kind # "throw"

C13_Witness ==
  /\ done.reply.kind = "throw"
  /\ done.status = 500
  /\ Len(store) >= 1

\* The places of the store whose document is among the words w.
Listed(w) == {w[a]._id : a \in DOMAIN w}

\* Every word of w is the stored document it names, and none comes twice.
Faithful(w) ==
  /\ \A a \in DOMAIN w :
       /\ w[a]._id \in DOMAIN store
       /\ \A p \in Paths : w[a][p] = store[w[a]._id][p]
  /\ \A a, b \in DOMAIN w : a # b => w[a]._id # w[b]._id

\* C14: a review query answered 200 for user u, its filter built at time
\* `at`, returns exactly the stored records of u with nextReview <= at (one
\* with nextReview = at included, one with nextReview > at or of another
\* user excluded), each once, in ascending order of nextReview.
C14_ReviewReturnsDue ==
  (out.op = "review" /\ out.status = 200) =>
    /\ Faithful(out.words)
    /\ \A i \in DOMAIN store :
         i \in Listed(out.words) <=>
           (store[i].userId = out.userId /\ store[i].nextReview <= out.at)
    /\ \A a, b \in DOMAIN out.words :
         a < b => out.words[a].nextReview <= out.words[b].nextReview

\* A record due exactly at the query time is returned while another record
\* of the same user, due later, is not.
C14_Witness ==
  /\ out.op = "review" /\ out.status = 200
  /\ \E a \in DOMAIN out.words : out.words[a].nextReview = out.at
  /\ \E i \in DOMAIN store :
       store[i].userId = out.userId /\ store[i].nextReview > out.at

\* C15: a vocabulary query answered 200 for user u returns exactly the
\* stored records of u and none of another user, each once, in descending
\* order of lastSeen, so that no record of u has a later lastSeen than the
\* first one returned.
C15_VocabularyOfUser ==
  (out.op = "vocabulary" /\ out.status = 200) =>
    /\ Faithful(out.words)
    /\ \A i \in DOMAIN store :
         i \in Listed(out.words) <=> store[i].userId = out.userId
    /\ \A a, b \in DOMAIN out.words :
         a < b => out.words[a].lastSeen >= out.words[b].lastSeen
    /\ \A i \in DOMAIN store :
         (out.words # <<>> /\ store[i].userId = out.userId) =>
           store[i].lastSeen <= out.words[1].lastSeen

\* The record stored first was observed again later and is listed first.
C15_Witness ==
  /\ out.op = "vocabulary" /\ out.status = 200
  /\ Len(out.words) >= 2
  /\ out.words[1]._id < out.words[2]._id
  /\ out.words[1].lastSeen > out.words[2].lastSeen

\* C19: no step of scan, vocabulary, review, chat or tts removes a record:
\* every record of the store before the step is in the store after it, at
\* its place and with its userId and key, so the pairs present only grow.
C19_NeverDeleted ==
  \A i \in DOMAIN prev :
    /\ i \in DOMAIN store
    /\ store[i].userId = prev[i].userId
    /\ store[i].english = prev[i].english

\* A chat and a tts request answered with two records stored.
C19_Witness ==
  /\ out.op \in {"chat", "tts"}
  /\ out.status = 200
  /\ Len(store) >= 2
  /\ store = prev

\* C16: a record gets its createdAt in the step that adds it to the store (a
\* scan answered as a first observation), and no later step, of a scan of
\* its own pair or of any other, changes it.
C16_CreatedAtImmutable ==
  /\ \A i \in DOMAIN prev :
       i \in DOMAIN store /\ store[i].createdAt = prev[i].createdAt
  /\ \A i \in DOMAIN store :
       i \notin DOMAIN prev =>
         /\ done.status = 200 /\ done.isReview = FALSE
         /\ store[i].createdAt \in 0..now

\* A review written later than the record's creation.
C16_Witness ==
  /\ done.status = 200 /\ done.isReview = TRUE
  /\ store # prev
  /\ \E i \in DocsOf(done.userId, KeyOf(done.english)) :
       /\ store[i].timesSeenCount = 2
       /\ store[i].lastSeen > store[i].createdAt

\* C17: every stored record has createdAt <= lastSeen, and a record written
\* by a first observation and not yet observed again has createdAt =
\* lastSeen.
C17_CreatedBeforeSeen ==
  \A i \in DOMAIN store :
    /\ store[i].createdAt <= store[i].lastSeen
    /\ store[i].timesSeenCount = 1 => store[i].createdAt = store[i].lastSeen

\* C18: every stored record has nextReview >= lastSeen, and so has the
\* document every save() in flight is about to write.
C18_ReviewAfterSeen ==
  /\ \A i \in DOMAIN store : store[i].nextReview >= store[i].lastSeen
  /\ \A r \in Reqs : req[r].pc = "saving" => req[r].doc.nextReview >= req[r].doc.lastSeen

\* C20: with the requests served one after another, every stored english
\* is a lowercase key, and all observations of a user whose names fold to
\* the same key share one record: after two of them, recognized as names
\* that differ in letter case only, the second was answered as a review
\* with timesSeen = 2 and the pair has one record with timesSeenCount 2.
C20_KeyIsLowercase ==
  /\ \A i \in DOMAIN store : store[i].english \in {"mooncake", "zongzi", "star anise"}
  /\ \A p \in Pairs :
       /\ \A n \in hist[p].names : KeyOf(n) = p[2]
       /\ hist[p].n >= 1 => Cardinality(DocsOf(p[1], p[2])) = 1
       /\ (hist[p].n = 2 /\ Cardinality(hist[p].names) = 2) =>
            \A i \in DocsOf(p[1], p[2]) : store[i].timesSeenCount = 2
  /\ \A u \in Users, k \in {"Mooncake", "Zongzi", "Star Anise"} : DocsOf(u, k) = {}
  /\ done.status = 200 =>
       LET p == <<done.userId, KeyOf(done.english)>> IN
       (hist[p].n = 2 /\ Cardinality(hist[p].names) = 2) =>
         (done.isReview = TRUE /\ done.timesSeenCount = 2)

\* "Mooncake" and "mooncake" were observed, one after the other.
C20_Witness ==
  /\ done.status = 200 /\ done.isReview = TRUE /\ done.timesSeenCount = 2
  /\ hist[<<done.userId, "mooncake">>].names = {"Mooncake", "mooncake"}
  /\ hist[<<done.userId, "mooncake">>].n = 2
  /\ Cardinality(DocsOf(done.userId, "mooncake")) = 1

\* C21: a vocabulary query answered 200 for user u lists, for every key k a
\* scan of u has been answered 200 for, a record of k whose timesSeenCount
\* is the timesSeen of the latest such answer: what a scan has answered is
\* in the store for every query that runs after it.
C21_ReadYourWrites ==
  (out.op = "vocabulary" /\ out.status = 200) =>
    \A k \in Keys :
      hist[<<out.userId, k>>].n >= 1 =>
        \E a \in DOMAIN out.words :
          /\ out.words[a].english = k
          /\ out.words[a].timesSeenCount = hist[<<out.userId, k>>].last

\* The query follows a review answered with timesSeen = 2.
C21_Witness ==
  /\ out.op = "vocabulary" /\ out.status = 200
  /\ \E k \in Keys :
       /\ hist[<<out.userId, k>>].last = 2
       /\ \E a \in DOMAIN out.words :
            out.words[a].english = k /\ out.words[a].timesSeenCount = 2

\* C22: a scan request issues at most one recognizer call, one store lookup
\* and one save, whatever they return: a request waiting for the recognizer
\* has issued one call, one waiting for findOne one call and one lookup, one
\* waiting for save() one of each, and every answer was sent by a request
\* that had issued at most one of each.
C22_NoRetry ==
  /\ \A r \in Reqs :
       LET q == req[r] IN
       <<q.nRecog, q.nFind, q.nSave>> =
         CASE q.pc = "idle"        -> <<0, 0, 0>>
           [] q.pc = "recognizing" -> <<1, 0, 0>>
           [] q.pc = "finding"     -> <<1, 1, 0>>
           [] q.pc = "saving"      -> <<1, 1, 1>>
  /\ done.nRecog <= 1 /\ done.nFind <= 1 /\ done.nSave <= 1
  /\ done.status = 200 => (done.nRecog = 1 /\ done.nFind = 1 /\ done.nSave = 1)

\* A save() failed and was not tried again, while another request waits.
C22_Witness ==
  /\ done.status = 500
  /\ done.nRecog = 1 /\ done.nFind = 1 /\ done.nSave = 1
  /\ \E r \in Reqs : req[r].pc = "recognizing"

\* C23: with the requests served one after another and every request either
\* without a userId or by "u2", a request without userId runs as user
\* "default": the document it reads and writes has userId "default", its
\* answer leaves every record of another user as it was, and the second
\* such request for a key is answered as a review of the one record of
\* ("default", key), with timesSeen = 2.
C23_DefaultUser ==
  /\ \A r \in Reqs : req[r].pc # "idle" => req[r].userId \in {"default", "u2"}
  /\ \A r \in Reqs : (req[r].pc = "saving" /\ req[r].userId = "default") =>
                       req[r].doc.userId = "default"
  /\ \A i \in DOMAIN store : store[i].userId \in {"default", "u2"}
  /\ (done.status = 200 /\ done.userId = "default") =>
       LET p == <<"default", KeyOf(done.english)>> IN
       /\ \A i \in DOMAIN prev : prev[i].userId # "default" => store[i] = prev[i]
       /\ \A i \in DOMAIN store : i \notin DOMAIN prev => store[i].userId = "default"
       /\ Cardinality(DocsOf(p[1], p[2])) = 1
       /\ hist[p].n = 1 => done.isReview = FALSE
       /\ hist[p].n = 2 => (done.isReview = TRUE /\ done.timesSeenCount = 2)
  /\ done.status # 0 => done.userId \in {"default", "u2"}

\* The second request without userId for a key that "u2" has a record of.
C23_Witness ==
  /\ done.status = 200 /\ done.userId = "default"
  /\ done.isReview = TRUE /\ done.timesSeenCount = 2
  /\ \E j \in DocsOf("u2", KeyOf(done.english)) : store[j].timesSeenCount = 1
  /\ \E i \in DocsOf("default", KeyOf(done.english)) : store[i].timesSeenCount = 2

\* The places where the store differs from what it was before the step.
Changed == {i \in DOMAIN store : i \notin DOMAIN prev \/ store[i] # prev[i]}

\* C24: a step that answers 400, 404 or 500, or answers nothing, leaves the
\* store as it was; the store differs from what it was only after a step
\* that answers 200; and a step that answers 200 has committed one save():
\* it added one record (a first observation) or wrote one existing record
\* (a review), of the request's userId and lowercase english name, and that
\* write stored the timesSeenCount it answers.
C24_ModifiedIffSuccess ==
  /\ done.status # 200 => store = prev
  /\ done.status = 200 =>
       /\ done.nSave = 1
       /\ Cardinality(Changed) <= 1
       /\ \A i \in Changed :
            /\ store[i].userId = done.userId
            /\ store[i].english = KeyOf(done.english)
            /\ store[i].timesSeenCount = done.timesSeenCount
       /\ IF done.isReview
            THEN Len(store) = Len(prev)
            ELSE /\ Len(store) = Len(prev) + 1
                 /\ Changed = {Len(store)}
       /\ \E i \in DocsOf(done.userId, KeyOf(done.english)) :
            store[i].timesSeenCount = done.timesSeenCount

\* A first observation is answered 200: one record is added, the one
\* already stored stays as it was.
C24_Witness ==
  /\ done.status = 200 /\ done.isReview = FALSE
  /\ Len(prev) = 1 /\ Len(store) = 2
  /\ store[1] = prev[1]

\* The requests the step ends.
Ended == {r \in Reqs : req[r].pc # "idle" /\ req'[r].pc = "idle"}

\* C25: provided the recognizer and store calls eventually return or fail,
\* every request in flight eventually ends; a step ends at most one request
\* and sends 200, 404 or 500 exactly when it ends one; a request without an
\* image is answered 400 in the step that receives it and never is in
\* flight; no other step sends a response.
C25_AnsweredOnce ==
  /\ \A r \in Reqs : (req[r].pc # "idle") ~> (req[r].pc = "idle")
  /\ [][/\ Cardinality(Ended) <= 1
        /\ Ended # {} => done'.status \in {200, 404, 500}
        /\ Ended = {} => done'.status \in {0, 400}
        /\ done'.status = 400 => req' = req]_vars

\* One request is answered 404 while the other is still in flight.
C25_Witness ==
  /\ done.status = 404
  /\ \E r \in Reqs : req[r].pc = "saving"

\* C26: with the scans served one at a time, a review query at time `at`
\* returns no record whose interval has not elapsed: every record it
\* returns was last observed at lastSeen with timesSeenCount k (k >= 1, a
\* just-created record included) and at >= lastSeen + k days.
C26_NotDueEarly ==
  (out.op = "review" /\ out.status = 200) =>
    \A a \in DOMAIN out.words :
      out.at >= out.words[a].lastSeen + out.words[a].timesSeenCount * 86400 * 1000

TypeOK ==
  /\ variant \in Variants
  /\ now \in Nat
  /\ scans \in 0..MaxPairScans
  /\ \A r \in Reqs : req[r].pc \in {"idle", "recognizing", "finding", "saving"}
====
